---- MODULE Spec2Model ----
(***************************************************************************)
(* Model of the spherical mesh convolution layers (uscnn/layers/layers.py) *)
(* and of the feature pyramid network built from them                      *)
(* (uscnn/models/fpn.py).                                                  *)
(*                                                                         *)
(* Two levels of detail are used.  The PDO operators MeshConv and          *)
(* MeshConvTranspose are modelled on concrete tensors (integer entries     *)
(* stand for the float32 entries) over small mesh bundles.  ResBlock and   *)
(* SphericalFPNet, whose channel widths are 16..512, are modelled on       *)
(* tensor shapes over the icosphere hierarchy.                             *)
(*                                                                         *)
(* A call either returns a value or raises; both are a record with field   *)
(* err ("none" when the call returned).                                    *)
(***************************************************************************)
EXTENDS Integers, Sequences, FiniteSets, TLC

VARIABLES mc, mcIn, mcOut, mct, mctOut, rb, rbOut, fpn, fpnOut

vars == <<mc, mcIn, mcOut, mct, mctOut, rb, rbOut, fpn, fpnOut>>

----------------------------------------------------------------------------
(* Bounds of the model *)

\* largest channel count of an operator or an input tensor (value level)
MaxChan == 2
\* largest batch size
MaxBatch == 2
\* finest level of the small mesh hierarchy used at value level
MaxMeshLevel == 1
\* tensor entries range over -MaxVal..MaxVal
MaxVal == 1
\* tensors are drawn from a family indexed by 0..MaxSeed
MaxSeed == 2
\* strides offered to the constructors: 0..MaxStride
MaxStride == 3

\* number of PDO basis terms: identity, laplacian, EW gradient, NS gradient
ncoeff == 4

----------------------------------------------------------------------------
(* Generic helpers *)

\* s[1] + ... + s[n]
RECURSIVE SumTo(_, _)
SumTo(s, n) == IF n = 0 THEN 0 ELSE SumTo(s, n - 1) + s[n]

SumSeq(s) == SumTo(s, Len(s))

Min(a, b) == IF a < b THEN a ELSE b
Max(a, b) == IF a > b THEN a ELSE b

\* torch computes a tensor in full before the next statement reads it;
\* comparing the value with itself makes TLC evaluate every entry once
Tensor(t) == IF t = t THEN t ELSE <<>>

\* a call that returned t / a call that raised e
Ok(t) == [err |-> "none", val |-> Tensor(t)]
Raise(e) == [err |-> e, val |-> <<>>]

\* torch.Size of a (batch, channels, vertices) tensor
Size(t) == <<Len(t), Len(t[1]), Len(t[1][1])>>

\* entry k of the tensor family member seed; member 0 is the zero tensor
SVal(seed, k) ==
    LET m == (seed * k) % (2 * MaxVal + 1)
    IN  IF m > MaxVal THEN m - (2 * MaxVal + 1) ELSE m

GenTensor(seed, B, C, N) ==
    [b \in 1..B |-> [c \in 1..C |-> [v \in 1..N |->
        SVal(seed, b + 2*c + c*v + v*v)]]]

GenMatrix(seed, R, C) ==
    [r \in 1..R |-> [c \in 1..C |-> SVal(1, 1 + seed*r + (seed + 1)*c + r*c)]]

----------------------------------------------------------------------------
(* Mesh bundle files of the small hierarchy: level l has l+2 vertices and  *)
(* l+1 faces, and its vertices extend those of the coarser level.          *)

MeshFileExists(level) == level \in 0..MaxMeshLevel

MeshNV(level) == level + 2
MeshNF(level) == level + 1

Pickle(level) ==
    [V_rows  |-> MeshNV(level),
     nv_prev |-> MeshNV(level) - 1,
     G       |-> GenMatrix(1, 3 * MeshNF(level), MeshNV(level)),
     L       |-> GenMatrix(2, MeshNV(level), MeshNV(level)),
     F2V     |-> GenMatrix(3, MeshNV(level), MeshNF(level)),
     NS      |-> GenMatrix(4, MeshNF(level), 3),
     EW      |-> GenMatrix(5, MeshNF(level), 3)]

\* dense tensor (batch, in_chan, #V) times sparse matrix (newlen, #V)
spmatmul(den, sp) ==
    IF Len(sp[1]) # Len(den[1][1])
    THEN Raise("RuntimeError")
    ELSE Ok([b \in 1..Len(den) |-> [c \in 1..Len(den[1]) |->
               [r \in 1..Len(sp) |->
                  SumSeq([v \in 1..Len(sp[r]) |-> sp[r][v] * den[b][c][v]])]]])

----------------------------------------------------------------------------
(* Operator objects.  A constructor that raised leaves a record whose err  *)
(* names the exception and whose fields show how far construction got:     *)
(* coeffs is non-empty once the parameters were created, loaded is TRUE    *)
(* once the mesh file was read.                                            *)

NoBias == [present |-> FALSE, val |-> <<>>]

NoConv ==
    [err |-> "unbuilt", kind |-> "", stride |-> 0, mesh_file |-> 0,
     in_channels |-> 0, out_channels |-> 0, bias |-> NoBias, coeffs |-> <<>>,
     loaded |-> FALSE, nv |-> 0, nv_prev |-> 0, nv_pad |-> 0,
     G |-> <<>>, NS |-> <<>>, EW |-> <<>>, L |-> <<>>, F2V |-> <<>>]

\* the uniform draw of initialise_weights, one family member per seed
UniformCoeffs(wseed, out_channels, in_channels) ==
    [o \in 1..out_channels |-> [i \in 1..in_channels |->
        [k \in 1..ncoeff |-> SVal(wseed, o + 2*i + i*k + k*k)]]]

UniformBias(wseed, out_channels) ==
    [o \in 1..out_channels |-> SVal(wseed, o)]

initialise_weights(self, wseed) ==
    [self EXCEPT
       !.coeffs = UniformCoeffs(wseed[1], self.out_channels, self.in_channels),
       !.bias = IF self.bias.present
                THEN [present |-> TRUE, val |-> UniformBias(wseed[2], self.out_channels)]
                ELSE self.bias]

\* assert stride in [1, 2]
SupportedStride(stride) == stride \in {1, 2}

\* _MeshConv.__init__
BaseInit(kind, in_channels, out_channels, mesh_file, stride, bias, wseed) ==
    LET args == [NoConv EXCEPT !.kind = kind, !.stride = stride,
                               !.mesh_file = mesh_file]
    IN
    IF ~SupportedStride(stride)
    THEN [args EXCEPT !.err = "AssertionError"]
    ELSE
      LET s1 == [args EXCEPT !.in_channels = in_channels,
                             !.out_channels = out_channels,
                             !.bias = [present |-> bias, val |-> <<>>]]
          s2 == initialise_weights(s1, wseed)
      IN
      IF ~MeshFileExists(mesh_file)
      THEN [s2 EXCEPT !.err = "FileNotFoundError"]
      ELSE
        LET pkl == Pickle(mesh_file)
        IN  [s2 EXCEPT !.err = "none", !.loaded = TRUE, !.nv = pkl.V_rows,
                       !.G = pkl.G, !.NS = pkl.NS, !.EW = pkl.EW]

\* MeshConv.__init__
MeshConvInit(in_channels, out_channels, mesh_file, stride, bias, wseed) ==
    LET self == BaseInit("MeshConv", in_channels, out_channels, mesh_file,
                         stride, bias, wseed)
    IN
    IF self.err # "none" THEN self
    ELSE
      LET pkl == Pickle(mesh_file)
      IN
      IF stride = 2
      THEN [self EXCEPT !.nv_prev = pkl.nv_prev,
                        !.L = SubSeq(pkl.L, 1, pkl.nv_prev),
                        !.F2V = SubSeq(pkl.F2V, 1, pkl.nv_prev)]
      ELSE [self EXCEPT !.nv_prev = pkl.V_rows,
                        !.L = pkl.L,
                        !.F2V = pkl.F2V]

\* the transpose relying on the base class assertion only
TransposeStride_AsBase(stride) == stride \in {1, 2}

\* assert(stride == 2)
TransposeStride(stride) == stride = 2

\* MeshConvTranspose.__init__
MeshConvTransposeInit(in_channels, out_channels, mesh_file, stride, bias, wseed) ==
    IF ~TransposeStride(stride)
    THEN [NoConv EXCEPT !.err = "AssertionError", !.kind = "MeshConvTranspose",
                        !.stride = stride, !.mesh_file = mesh_file]
    ELSE
      LET self == BaseInit("MeshConvTranspose", in_channels, out_channels,
                           mesh_file, stride, bias, wseed)
      IN
      IF self.err # "none" THEN self
      ELSE
        LET pkl == Pickle(mesh_file)
        IN  [self EXCEPT !.nv_prev = pkl.nv_prev,
                         !.nv_pad = self.nv - pkl.nv_prev,
                         !.L = pkl.L,
                         !.F2V = pkl.F2V]

----------------------------------------------------------------------------
(* forward.  The result record carries, besides the returned tensor val,   *)
(* the intermediate values the call computed before it returned or raised: *)
(* padded (the input after torch.cat, transpose only) and feat (the list   *)
(* [identity, laplacian, grad_vert_ew, grad_vert_ns]).                     *)

NoResult == [err |-> "unrun", val |-> <<>>, feat |-> <<>>, padded |-> <<>>]

Fail(e, feat, padded) == [err |-> e, val |-> <<>>, feat |-> feat, padded |-> padded]

\* grad_face.view(B, C, 3, -1).permute(0, 1, 3, 2)
ViewPermute(flat) ==
    LET nf == Len(flat[1][1]) \div 3
    IN  [b \in 1..Len(flat) |-> [c \in 1..Len(flat[1]) |->
           [f \in 1..nf |-> [d \in 1..3 |-> flat[b][c][(d - 1) * nf + f]]]]]

\* torch.sum(torch.mul(grad_face, field), dim=-1)
ProjectOn(grad_face, field) ==
    [b \in 1..Len(grad_face) |-> [c \in 1..Len(grad_face[1]) |->
       [f \in 1..Len(grad_face[1][1]) |->
          SumSeq([d \in 1..3 |-> grad_face[b][c][f][d] * field[f][d]])]]]

\* input[..., :n]
Truncate(x, n) ==
    [b \in 1..Len(x) |-> [c \in 1..Len(x[1]) |-> SubSeq(x[b][c], 1, Min(n, Len(x[b][c])))]]

\* torch.stack(feat, dim=-1) needs tensors of one size
Stackable(feat) == \A k \in 1..Len(feat) : Size(feat[k]) = Size(feat[1])

\* torch.mul(out.unsqueeze(1), coeffs.unsqueeze(2)) broadcasts the channel
\* axis of the stacked terms against the in_channels axis of coeffs
Broadcastable(a, b) == a = b \/ a = 1 \/ b = 1

\* torch.add written for torch.mul
Contract_Add(feat, coeffs) ==
    LET C == Len(feat[1][1])
        I == Len(coeffs[1])
    IN  [b \in 1..Len(feat[1]) |-> [o \in 1..Len(coeffs) |->
           [v \in 1..Len(feat[1][1][1]) |->
              SumSeq([i \in 1..Max(C, I) |->
                 SumSeq([k \in 1..ncoeff |->
                    feat[k][b][IF C = 1 THEN 1 ELSE i][v]
                      + coeffs[o][IF I = 1 THEN 1 ELSE i][k]])])]]]

\* torch.sum(torch.sum(torch.mul(...), dim=2), dim=-1)
Contract(feat, coeffs) ==
    LET C == Len(feat[1][1])
        I == Len(coeffs[1])
    IN  [b \in 1..Len(feat[1]) |-> [o \in 1..Len(coeffs) |->
           [v \in 1..Len(feat[1][1][1]) |->
              SumSeq([i \in 1..Max(C, I) |->
                 SumSeq([k \in 1..ncoeff |->
                    feat[k][b][IF C = 1 THEN 1 ELSE i][v]
                      * coeffs[o][IF I = 1 THEN 1 ELSE i][k]])])]]]

\* out += self.bias.unsqueeze(-1)
AddBias(self, t) ==
    IF ~self.bias.present
    THEN Raise("AttributeError")
    ELSE Ok([b \in 1..Len(t) |-> [o \in 1..Len(t[1]) |->
               [v \in 1..Len(t[1][1]) |-> t[b][o][v] + self.bias.val[o]]]])

\* a slip in the order of the feature list
Features_LaplacianFirst(identity, laplacian, grad_vert_ew, grad_vert_ns) ==
    <<laplacian, identity, grad_vert_ew, grad_vert_ns>>

\* feat = [identity, laplacian, grad_vert_ew, grad_vert_ns]
Features(identity, laplacian, grad_vert_ew, grad_vert_ns) ==
    <<identity, laplacian, grad_vert_ew, grad_vert_ns>>

\* the steps both forward methods share once input and identity are fixed
PdoForward(self, input, identity, padded) ==
    LET gf == spmatmul(input, self.G)
    IN
    IF gf.err # "none" THEN Fail(gf.err, <<>>, padded)
    ELSE
      LET grad_face == Tensor(ViewPermute(gf.val))
          laplacian == spmatmul(input, self.L)
      IN
      IF laplacian.err # "none" THEN Fail(laplacian.err, <<>>, padded)
      ELSE
        LET grad_face_ew == Tensor(ProjectOn(grad_face, self.EW))
            grad_face_ns == Tensor(ProjectOn(grad_face, self.NS))
            grad_vert_ew == spmatmul(grad_face_ew, self.F2V)
            grad_vert_ns == spmatmul(grad_face_ns, self.F2V)
        IN
        IF grad_vert_ew.err # "none" THEN Fail(grad_vert_ew.err, <<>>, padded)
        ELSE
          LET feat == Features(identity, laplacian.val, grad_vert_ew.val,
                               grad_vert_ns.val)
          IN
          IF ~Stackable(feat) THEN Fail("RuntimeError", feat, padded)
          ELSE IF ~Broadcastable(Len(identity[1]), self.in_channels)
          THEN Fail("RuntimeError", feat, padded)
          ELSE
            LET res == AddBias(self, Tensor(Contract(feat, self.coeffs)))
            IN  [err |-> res.err, val |-> res.val, feat |-> feat, padded |-> padded]

\* identity = input[..., :self.nv_prev]
MeshConvIdentity(self, input) == Tensor(Truncate(input, self.nv_prev))

\* MeshConv.forward
MeshConvForward(self, input) ==
    PdoForward(self, input, MeshConvIdentity(self, input), <<>>)

\* padding with zeros, as the comment in the source says
PadOnes_Zeros(self, input) ==
    [b \in 1..Len(input) |-> [c \in 1..Len(input[1]) |->
       input[b][c] \o [j \in 1..self.nv_pad |-> 0]]]

\* padding by nv_prev columns instead of nv_pad
PadOnes_NvPrev(self, input) ==
    [b \in 1..Len(input) |-> [c \in 1..Len(input[1]) |->
       input[b][c] \o [j \in 1..self.nv_prev |-> 1]]]

\* torch.cat((input, torch.ones(B, C, self.nv_pad)), dim=-1)
PadOnes(self, input) ==
    [b \in 1..Len(input) |-> [c \in 1..Len(input[1]) |->
       input[b][c] \o [j \in 1..self.nv_pad |-> 1]]]

\* MeshConvTranspose.forward
MeshConvTransposeForward(self, input) ==
    IF self.nv_pad < 0
    THEN Fail("RuntimeError", <<>>, <<>>)
    ELSE LET padded == Tensor(PadOnes(self, input))
         IN  PdoForward(self, padded, padded, padded)

Forward(self, input) ==
    IF self.kind = "MeshConv"
    THEN MeshConvForward(self, input)
    ELSE MeshConvTransposeForward(self, input)

----------------------------------------------------------------------------
(* The operator under test: construct it, optionally overwrite its         *)
(* coefficients, call forward, and feed a stride-2 result to a transposed  *)
(* operator of the same bundle.                                            *)

Kinds == {"MeshConv", "MeshConvTranspose"}
Seeds == 0..MaxSeed
\* mesh levels asked for: one more than there are bundle files
MeshFiles == 0..(MaxMeshLevel + 1)
\* vertex counts offered as forward input: nv and nv_prev of every level
InputNV == {MeshNV(l) : l \in 0..MaxMeshLevel} \cup {MeshNV(l) - 1 : l \in 0..MaxMeshLevel}

InitConv ==
    /\ mc = NoConv
    /\ mcIn = <<>>
    /\ mcOut = NoResult
    /\ mct = NoConv
    /\ mctOut = NoResult

\* MeshConv(...) or MeshConvTranspose(...)
Construct ==
    /\ mc.err = "unbuilt"
    /\ \E kind \in Kinds, ic \in 1..MaxChan, oc \in 1..MaxChan, mf \in MeshFiles,
          stride \in 0..MaxStride, bias \in BOOLEAN, ws \in Seeds, bs \in Seeds :
         /\ bs \in {0, ws}
         /\ bias \/ bs = 0
         /\ mc' = IF kind = "MeshConv"
                    THEN MeshConvInit(ic, oc, mf, stride, bias, <<ws, bs>>)
                    ELSE MeshConvTransposeInit(ic, oc, mf, stride, bias, <<ws, bs>>)
    /\ UNCHANGED <<mcIn, mcOut, mct, mctOut, rb, rbOut, fpn, fpnOut>>

\* coeffs.data set to weight 1 on basis term k and 0 on the others
TermSelector(self, k) ==
    [o \in 1..self.out_channels |-> [i \in 1..self.in_channels |->
        [j \in 1..ncoeff |-> IF j = k THEN 1 ELSE 0]]]

LoadCoeffs ==
    /\ mc.err = "none"
    /\ mcOut.err = "unrun"
    /\ \E k \in 1..ncoeff : mc' = [mc EXCEPT !.coeffs = TermSelector(mc, k)]
    /\ UNCHANGED <<mcIn, mcOut, mct, mctOut, rb, rbOut, fpn, fpnOut>>

\* sizes on which forward gets as far as the weighted combination
Combinable(self, C, N) ==
    /\ N = IF self.kind = "MeshConv" THEN self.nv ELSE self.nv_prev
    /\ Broadcastable(C, self.in_channels)

\* mc(input); forward reads the operator and the input only, so one call
\* per operator state reaches every result.  An input of any other size makes
\* forward raise whatever its entries are: one such input per size is drawn.
CallForward ==
    /\ mc.err = "none"
    /\ mcOut.err = "unrun"
    /\ \E B \in 1..MaxBatch, C \in 1..MaxChan, N \in InputNV, xs \in Seeds :
         LET input == Tensor(GenTensor(xs, B, C, N))
         IN  /\ Combinable(mc, C, N) \/ (B = 1 /\ xs = 0)
             /\ mcIn' = input
             /\ mcOut' = Forward(mc, input)
    /\ UNCHANGED <<mc, mct, mctOut, rb, rbOut, fpn, fpnOut>>

\* MeshConvTranspose(c, c, mesh_file)(mc(input)) for a stride-2 mc of
\* equal channel widths
ComposeTranspose ==
    /\ mc.err = "none"
    /\ mc.kind = "MeshConv"
    /\ mc.stride = 2
    /\ mc.in_channels = mc.out_channels
    /\ mcOut.err = "none"
    /\ mct.err = "unbuilt"
    /\ \E ws \in Seeds :
         LET t == MeshConvTransposeInit(mc.out_channels, mc.out_channels,
                                       mc.mesh_file, 2, TRUE, <<ws, ws>>)
         IN  /\ mct' = t
             /\ mctOut' = Forward(t, mcOut.val)
    /\ UNCHANGED <<mc, mcIn, mcOut, rb, rbOut, fpn, fpnOut>>

----------------------------------------------------------------------------
(* Shape level.  A tensor is its size (b, c, n); a mesh bundle is its      *)
(* vertex count nv, face count nf and coarser vertex count nv_prev; an     *)
(* operator keeps the row counts of its L and F2V.                         *)

ShOk(b, c, n) == [err |-> "none", b |-> b, c |-> c, n |-> n]
ShRaise(e) == [err |-> e, b |-> 0, c |-> 0, n |-> 0]
NoShape == ShRaise("unrun")

\* the first exception raised by a list of steps in program order
RECURSIVE FirstErr(_)
FirstErr(steps) ==
    IF Len(steps) = 0 THEN "none"
    ELSE IF steps[1].err # "none" THEN steps[1].err
    ELSE FirstErr(Tail(steps))

\* mesh bundle of the small hierarchy, as sizes
SmallMesh(level) ==
    [exists |-> MeshFileExists(level), nv |-> MeshNV(level),
     nf |-> MeshNF(level), nv_prev |-> MeshNV(level) - 1]

NoDims ==
    [err |-> "unbuilt", kind |-> "", stride |-> 0, in_channels |-> 0,
     out_channels |-> 0, bias |-> FALSE, nv |-> 0, nf |-> 0, nv_prev |-> 0,
     nv_pad |-> 0, Lrows |-> 0, F2Vrows |-> 0]

\* _MeshConv.__init__ followed by MeshConv.__init__
MeshConvDims(in_channels, out_channels, mesh, stride, bias) ==
    IF ~SupportedStride(stride) THEN [NoDims EXCEPT !.err = "AssertionError"]
    ELSE IF ~mesh.exists THEN [NoDims EXCEPT !.err = "FileNotFoundError"]
    ELSE [err |-> "none", kind |-> "MeshConv", stride |-> stride,
          in_channels |-> in_channels, out_channels |-> out_channels,
          bias |-> bias, nv |-> mesh.nv, nf |-> mesh.nf,
          nv_prev |-> IF stride = 2 THEN mesh.nv_prev ELSE mesh.nv,
          nv_pad |-> 0,
          Lrows |-> IF stride = 2 THEN Min(mesh.nv_prev, mesh.nv) ELSE mesh.nv,
          F2Vrows |-> IF stride = 2 THEN Min(mesh.nv_prev, mesh.nv) ELSE mesh.nv]

\* MeshConvTranspose.__init__
MeshConvTransposeDims(in_channels, out_channels, mesh, stride, bias) ==
    IF ~TransposeStride(stride) \/ ~SupportedStride(stride)
    THEN [NoDims EXCEPT !.err = "AssertionError"]
    ELSE IF ~mesh.exists THEN [NoDims EXCEPT !.err = "FileNotFoundError"]
    ELSE [err |-> "none", kind |-> "MeshConvTranspose", stride |-> stride,
          in_channels |-> in_channels, out_channels |-> out_channels,
          bias |-> bias, nv |-> mesh.nv, nf |-> mesh.nf,
          nv_prev |-> mesh.nv_prev, nv_pad |-> mesh.nv - mesh.nv_prev,
          Lrows |-> mesh.nv, F2Vrows |-> mesh.nv]

\* the size MeshConv.forward / MeshConvTranspose.forward returns for an
\* input of size x
ConvShape(self, x) ==
    IF x.err # "none" THEN x
    ELSE IF self.kind = "MeshConvTranspose" /\ self.nv_pad < 0
    THEN ShRaise("RuntimeError")
    ELSE
      LET n == IF self.kind = "MeshConvTranspose" THEN x.n + self.nv_pad ELSE x.n
          identity == IF self.kind = "MeshConvTranspose" THEN n
                      ELSE Min(self.nv_prev, n)
      IN
      IF n # self.nv THEN ShRaise("RuntimeError")
      ELSE IF ~(identity = self.Lrows /\ identity = self.F2Vrows)
      THEN ShRaise("RuntimeError")
      ELSE IF ~Broadcastable(x.c, self.in_channels) THEN ShRaise("RuntimeError")
      ELSE IF ~self.bias THEN ShRaise("AttributeError")
      ELSE ShOk(x.b, self.out_channels, identity)

\* nn.Conv1d(in_ch, out_ch, kernel_size=1, stride=1) applied to x
Conv1d(in_ch, out_ch, x) ==
    IF x.err # "none" THEN x
    ELSE IF x.c # in_ch THEN ShRaise("RuntimeError")
    ELSE ShOk(x.b, out_ch, x.n)

\* nn.BatchNorm1d(chan) in training mode applied to x
BatchNorm1d(chan, x) ==
    IF x.err # "none" THEN x
    ELSE IF x.c # chan THEN ShRaise("RuntimeError")
    ELSE IF x.b * x.n <= 1 THEN ShRaise("ValueError")
    ELSE x

\* DownSamp.forward
DownSamp(nv_prev, x) ==
    IF x.err # "none" THEN x ELSE ShOk(x.b, x.c, Min(nv_prev, x.n))

\* x1 + x2 with broadcasting
Add(x1, x2) ==
    IF x1.err # "none" THEN x1
    ELSE IF x2.err # "none" THEN x2
    ELSE IF ~(Broadcastable(x1.b, x2.b) /\ Broadcastable(x1.c, x2.c)
              /\ Broadcastable(x1.n, x2.n))
    THEN ShRaise("RuntimeError")
    ELSE ShOk(Max(x1.b, x2.b), Max(x1.c, x2.c), Max(x1.n, x2.n))

----------------------------------------------------------------------------
(* Icosphere mesh files icosphere_0.pkl .. icosphere_<MaxIcoLevel>.pkl     *)

\* finest icosphere level with a mesh file in the mesh folder
MaxIcoLevel == 6

IcoNV(level) == IF level < 0 THEN 0 ELSE 10 * 4^level + 2
IcoNF(level) == IF level < 0 THEN 0 ELSE 20 * 4^level

IcoMesh(level) ==
    [exists |-> level \in 0..MaxIcoLevel, nv |-> IcoNV(level),
     nf |-> IcoNF(level), nv_prev |-> (IcoNV(level) + 6) \div 4]

----------------------------------------------------------------------------
(* ResBlock *)

NoBlock ==
    [err |-> "unbuilt", in_chan |-> 0, neck_chan |-> 0, out_chan |-> 0,
     level |-> 0, coarsen |-> FALSE, diff_chan |-> FALSE, conv_2a |-> NoDims,
     nv_prev |-> 0]

NoBlockResult ==
    [err |-> "unrun", x |-> NoShape, x1 |-> NoShape, x2 |-> NoShape, out |-> NoShape]

\* the block's own level taken also when coarsening
ResBlockMeshLevel_Same(level, coarsen) == level

\* lvl = level - 1 if coarsen else level
ResBlockMeshLevel(level, coarsen) == IF coarsen THEN level - 1 ELSE level

\* ResBlock.__init__
ResBlockInit(in_chan, neck_chan, out_chan, level, coarsen) ==
    LET conv_2a == MeshConvDims(neck_chan, neck_chan,
                                IcoMesh(ResBlockMeshLevel(level, coarsen)), 1, TRUE)
    IN  [err |-> conv_2a.err, in_chan |-> in_chan, neck_chan |-> neck_chan,
         out_chan |-> out_chan, level |-> level, coarsen |-> coarsen,
         diff_chan |-> (in_chan # out_chan), conv_2a |-> conv_2a,
         nv_prev |-> conv_2a.nv_prev]

\* self.seq_a
ResBlockMain(self, x) ==
    LET a1 == Conv1d(self.in_chan, self.neck_chan, x)
        a2 == IF self.coarsen THEN DownSamp(self.nv_prev, a1) ELSE a1
        a3 == BatchNorm1d(self.neck_chan, a2)
        a4 == ConvShape(self.conv_2a, a3)
        a5 == BatchNorm1d(self.neck_chan, a4)
        a6 == Conv1d(self.neck_chan, self.out_chan, a5)
    IN  BatchNorm1d(self.out_chan, a6)

\* the skip path: self.seq_b, or x itself
ResBlockSkip(self, x) ==
    IF self.diff_chan \/ self.coarsen
    THEN LET b1 == Conv1d(self.in_chan, self.out_chan, x)
             b2 == IF self.coarsen THEN DownSamp(self.nv_prev, b1) ELSE b1
         IN  BatchNorm1d(self.out_chan, b2)
    ELSE x

\* ResBlock.forward
ResBlockForward(self, x) ==
    LET x2 == ResBlockSkip(self, x)
        x1 == ResBlockMain(self, x)
        sum == Add(x1, x2)
    IN  [err |-> FirstErr(<<x2, x1, sum>>), x |-> x, x1 |-> x1, x2 |-> x2, out |-> sum]

----------------------------------------------------------------------------
(* Up, Down and SphericalFPNet *)

\* channel width of the detection stage, fixed in SphericalFPNet.__init__
DetDim == 128
\* number of Up stages, fixed in SphericalFPNet.__init__
NumUp == 3
\* defaults of SphericalFPNet.__init__
DefaultMaxLevel == 5
DefaultMinLevel == 0
DefaultFdim == 16
DefaultFpnDim == 256

\* int(fdim * (2 ** e))
ChanPow(fdim, e) == IF e >= 0 THEN fdim * 2^e ELSE fdim \div 2^(0 - e)

\* Up.__init__
UpInit(in_ch, out_ch, level) ==
    [up |-> MeshConvTransposeDims(out_ch, out_ch, IcoMesh(level), 2, TRUE),
     conv |-> <<in_ch, out_ch>>]

\* Up.forward
UpForward(self, x1, x2) ==
    LET u == ConvShape(self.up, x1)
        c == Conv1d(self.conv[1], self.conv[2], x2)
    IN  [x1 |-> u, x2 |-> c, out |-> Add(u, c)]

\* Down.__init__
DownInit(in_ch, out_ch, level) == ResBlockInit(in_ch, in_ch, out_ch, level + 1, TRUE)

\* the backbone loop of SphericalFPNet.__init__
Backbone(max_level, levels, fdim) ==
    [i \in 1..levels |->
        DownInit(ChanPow(fdim, i - 1), ChanPow(fdim, i), max_level - (i - 1) - 1)]

\* the feature pyramid loop of SphericalFPNet.__init__
Pyramid(min_level, levels, fdim, fpn_dim) ==
    [i \in 1..NumUp |->
        UpInit(ChanPow(fdim, levels - (i - 1) - 1), fpn_dim, min_level + (i - 1) + 1)]

NoNet ==
    [err |-> "unbuilt", max_level |-> 0, min_level |-> 0, levels |-> 0,
     in_ch |-> 0, out_ch |-> 0, fdim |-> 0, fpn_dim |-> 0,
     in_conv |-> NoDims, out_conv_a |-> NoDims, out_conv_b |-> NoDims,
     down |-> <<>>, cross_conv |-> <<0, 0>>, up |-> <<>>,
     conv_1a |-> NoDims, conv_1b |-> NoDims, conv_1c |-> NoDims,
     conv_2a |-> NoDims, conv_2b |-> NoDims, conv_3a |-> NoDims,
     conv_4a |-> <<0, 0>>]

\* SphericalFPNet.__init__
SphericalFPNetInit(in_ch, out_ch, max_level, min_level, fdim, fpn_dim) ==
    LET levels == max_level - min_level
        T(ic, oc, lvl) == MeshConvTransposeDims(ic, oc, IcoMesh(lvl), 2, TRUE)
        in_conv == MeshConvDims(in_ch, fdim, IcoMesh(max_level), 1, TRUE)
        out_conv_a == T(DetDim, DetDim, max_level - 1)
        out_conv_b == T(DetDim, out_ch, max_level)
        down == Backbone(max_level, levels, fdim)
        \* ch_out is bound by the backbone loop only
        unbound == IF levels <= 0 THEN [err |-> "UnboundLocalError"] ELSE [err |-> "none"]
        up == Pyramid(min_level, levels, fdim, fpn_dim)
        conv_1a == T(fpn_dim, DetDim, 1)
        conv_1b == T(DetDim, DetDim, 2)
        conv_1c == T(DetDim, DetDim, 3)
        conv_2a == T(fpn_dim, DetDim, 2)
        conv_2b == T(DetDim, DetDim, 3)
        conv_3a == T(fpn_dim, DetDim, 3)
        steps == <<in_conv, out_conv_a, out_conv_b>> \o down \o <<unbound>>
                   \o [i \in 1..NumUp |-> up[i].up]
                   \o <<conv_1a, conv_1b, conv_1c, conv_2a, conv_2b, conv_3a>>
    IN  [err |-> FirstErr(steps), max_level |-> max_level, min_level |-> min_level,
         levels |-> levels, in_ch |-> in_ch, out_ch |-> out_ch, fdim |-> fdim,
         fpn_dim |-> fpn_dim, in_conv |-> in_conv, out_conv_a |-> out_conv_a,
         out_conv_b |-> out_conv_b, down |-> down,
         cross_conv |-> <<ChanPow(fdim, levels), fpn_dim>>, up |-> up,
         conv_1a |-> conv_1a, conv_1b |-> conv_1b, conv_1c |-> conv_1c,
         conv_2a |-> conv_2a, conv_2b |-> conv_2b, conv_3a |-> conv_3a,
         conv_4a |-> <<fpn_dim, DetDim>>]

\* the Python list element lst[idx], lst given from index 0
PyIndex(lst, idx) ==
    LET j == IF idx < 0 THEN idx + Len(lst) ELSE idx
    IN  IF j < 0 \/ j >= Len(lst) THEN ShRaise("IndexError") ELSE lst[j + 1]

\* the encoder loop of forward: the results of down[0] .. down[i-1]
RECURSIVE Encoder(_, _, _)
Encoder(self, x0, i) ==
    IF i = 0 THEN <<>>
    ELSE LET prev == Encoder(self, x0, i - 1)
             xin == IF i = 1 THEN x0 ELSE prev[i - 1].out
         IN  Append(prev, ResBlockForward(self.down[i], xin))

\* x_d = [self.in_conv(x)] extended by the encoder loop
EncoderForward(self, x) ==
    LET x0 == ConvShape(self.in_conv, x)
        enc == Encoder(self, x0, self.levels)
    IN  [x_d |-> <<x0>> \o [i \in 1..self.levels |-> enc[i].out],
         steps |-> <<x0>> \o enc, down |-> enc]

\* an index off by one
SkipIndex_OffByOne(self, i) == self.levels - i

\* index into x_d of the encoder tensor Up stage i (0, 1, 2) reads
SkipIndex(self, i) == self.levels - 1 - i

\* x_u.append(self.up[i](x_u[-1], x_d[self.levels - 1 - i])) for stage i
UpStage(self, i, last, x_d) ==
    LET skip == PyIndex(x_d, SkipIndex(self, i))
        r == UpForward(self.up[i + 1], last, skip)
    IN  [skip |-> skip, x1 |-> r.x1, x2 |-> r.x2, out |-> r.out]

\* the feature pyramid of forward: the results of up[0] .. up[i-1]
RECURSIVE Decoder(_, _, _, _)
Decoder(self, u0, x_d, i) ==
    IF i = 0 THEN <<>>
    ELSE LET prev == Decoder(self, u0, x_d, i - 1)
             last == IF i = 1 THEN u0 ELSE prev[i - 1].out
         IN  Append(prev, UpStage(self, i - 1, last, x_d))

\* x_u = [self.cross_conv(x_d[-1])] extended by the three Up stages
PyramidForward(self, x_d) ==
    LET u0 == Conv1d(self.cross_conv[1], self.cross_conv[2], x_d[Len(x_d)])
        ups == Decoder(self, u0, x_d, NumUp)
    IN  [x_u |-> <<u0>> \o [i \in 1..NumUp |-> ups[i].out],
         steps |-> <<u0>> \o [j \in 1..(4 * NumUp) |->
                      LET st == ups[(j - 1) \div 4 + 1]
                          k == (j - 1) % 4
                      IN  IF k = 0 THEN st.skip ELSE IF k = 1 THEN st.x1
                          ELSE IF k = 2 THEN st.x2 ELSE st.out],
         up |-> ups]

\* the detection stage and the final 4x upsampling of forward
DetectionForward(self, x_u) ==
    LET x1 == ConvShape(self.conv_1c, ConvShape(self.conv_1b,
                  ConvShape(self.conv_1a, x_u[1])))
        x2 == ConvShape(self.conv_2b, ConvShape(self.conv_2a, x_u[2]))
        x3 == ConvShape(self.conv_3a, x_u[3])
        x4 == Conv1d(self.conv_4a[1], self.conv_4a[2], x_u[4])
        det == <<x1, x2, x3, x4>>
    IN  [det |-> det, sum |-> Add(Add(Add(det[1], det[2]), det[3]), det[4])]

FinalUpsample(self, sum) == ConvShape(self.out_conv_b, ConvShape(self.out_conv_a, sum))

NoNetResult ==
    [err |-> "unrun", x |-> NoShape, x_d |-> <<>>, down |-> <<>>, x_u |-> <<>>,
     up |-> <<>>, det |-> <<>>, sum |-> NoShape, out |-> NoShape]

\* SphericalFPNet.forward
SphericalFPNetForward(self, x) ==
    LET e == EncoderForward(self, x)
        p == PyramidForward(self, e.x_d)
        d == DetectionForward(self, p.x_u)
        res == FinalUpsample(self, d.sum)
    IN  [err |-> FirstErr(e.steps \o p.steps \o d.det \o <<d.sum, res>>),
         x |-> x, x_d |-> e.x_d, down |-> e.down, x_u |-> p.x_u, up |-> p.up,
         det |-> d.det, sum |-> d.sum, out |-> res]

----------------------------------------------------------------------------
(* The residual block under test and the network under test *)

IcoLevels == 0..MaxIcoLevel
\* vertex counts offered as input: the count of every icosphere level
IcoInputNV == {IcoNV(l) : l \in IcoLevels}

\* ResBlock(in_chan, neck_chan, out_chan, level, coarsen, mesh_folder)
BuildResBlock ==
    /\ rb.err = "unbuilt"
    /\ \E ic \in 1..MaxChan, nc \in 1..MaxChan, oc \in 1..MaxChan,
          level \in 0..(MaxIcoLevel + 1), coarsen \in BOOLEAN :
         rb' = ResBlockInit(ic, nc, oc, level, coarsen)
    /\ UNCHANGED <<mc, mcIn, mcOut, mct, mctOut, rbOut, fpn, fpnOut>>

\* rb(x)
CallResBlock ==
    /\ rb.err = "none"
    /\ rbOut.err = "unrun"
    /\ \E B \in 1..MaxBatch, C \in 1..MaxChan, N \in IcoInputNV :
         rbOut' = ResBlockForward(rb, ShOk(B, C, N))
    /\ UNCHANGED <<mc, mcIn, mcOut, mct, mctOut, rb, fpn, fpnOut>>

\* SphericalFPNet(mesh_folder, in_ch, out_ch, max_level, min_level, fdim, fpn_dim)
BuildNet ==
    /\ fpn.err = "unbuilt"
    /\ \E ic \in 1..MaxChan, oc \in 1..MaxChan, max_level \in IcoLevels,
          fdim \in {DefaultFdim, 2 * DefaultFdim},
          fpn_dim \in {DefaultFpnDim, DetDim} :
         \E min_level \in 0..max_level :
            fpn' = SphericalFPNetInit(ic, oc, max_level, min_level, fdim, fpn_dim)
    /\ UNCHANGED <<mc, mcIn, mcOut, mct, mctOut, rb, rbOut, fpnOut>>

\* fpn(x)
CallNet ==
    /\ fpn.err = "none"
    /\ fpnOut.err = "unrun"
    /\ \E B \in 1..MaxBatch, C \in 1..MaxChan, N \in IcoInputNV :
         fpnOut' = SphericalFPNetForward(fpn, ShOk(B, C, N))
    /\ UNCHANGED <<mc, mcIn, mcOut, mct, mctOut, rb, rbOut, fpn>>

----------------------------------------------------------------------------
(* Specifications *)

InitRes == rb = NoBlock /\ rbOut = NoBlockResult
InitNet == fpn = NoNet /\ fpnOut = NoNetResult

Init == InitConv /\ InitRes /\ InitNet

NextConv == Construct \/ LoadCoeffs \/ CallForward \/ ComposeTranspose
NextRes == BuildResBlock \/ CallResBlock
NextNet == BuildNet \/ CallNet

\* the PDO operators on concrete tensors
Spec == Init /\ [][NextConv]_vars
\* the residual block on tensor sizes
SpecRes == Init /\ [][NextRes]_vars
\* the pyramid network on tensor sizes
SpecNet == Init /\ [][NextNet]_vars

----------------------------------------------------------------------------
(* Properties *)

\* forward has been called on the operator under test
Called == mcOut.err # "unrun"

\* x has the size (batch, in_channels, vertex count) the operator expects
ValidInput(self, x) ==
    /\ Size(x)[2] = self.in_channels
    /\ Size(x)[3] = IF self.kind = "MeshConv" THEN self.nv ELSE self.nv_prev

IsZero(t) ==
    \A b \in 1..Len(t) : \A c \in 1..Len(t[1]) : \A v \in 1..Len(t[1][1]) :
        t[b][c][v] = 0

ZeroBias(self) ==
    self.bias.present /\ \A o \in 1..self.out_channels : self.bias.val[o] = 0

\* the vertex count forward is to return: nv at stride 1, nv_prev at stride 2
TargetNV(self) == IF self.stride = 2 THEN self.nv_prev ELSE self.nv

\* The size model agrees with the tensor model: on every call of the operator
\* under test, ConvShape predicts the exception or the size of the result.
ShapeAbstraction ==
    Called =>
      LET dims == IF mc.kind = "MeshConv"
                  THEN MeshConvDims(mc.in_channels, mc.out_channels,
                                    SmallMesh(mc.mesh_file), mc.stride,
                                    mc.bias.present)
                  ELSE MeshConvTransposeDims(mc.in_channels, mc.out_channels,
                                    SmallMesh(mc.mesh_file), mc.stride,
                                    mc.bias.present)
          sz == Size(mcIn)
          sh == ConvShape(dims, ShOk(sz[1], sz[2], sz[3]))
      IN  /\ sh.err = mcOut.err
          /\ mcOut.err = "none" => Size(mcOut.val) = <<sh.b, sh.c, sh.n>>

\* C1: every MeshConv, called on an input of size (batch, in_channels, nv),
\* returns a tensor of size (batch, out_channels, nv) at stride 1 and
\* (batch, out_channels, nv_prev) at stride 2, with nv_prev < nv; the four
\* stacked terms all have that vertex count.
C1_ForwardReturnsTargetSize ==
    (Called /\ mc.kind = "MeshConv" /\ ValidInput(mc, mcIn)) =>
       /\ mcOut.err = "none"
       /\ Size(mcOut.val) = <<Len(mcIn), mc.out_channels, TargetNV(mc)>>
       /\ \A k \in 1..ncoeff : Size(mcOut.feat[k])[3] = TargetNV(mc)
       /\ mc.stride = 2 => Size(mcOut.val)[3] < Size(mcIn)[3]

\* C1, for the operators that have a bias: the sizes are as claimed.
C1_SizeWithBias ==
    (Called /\ mc.kind = "MeshConv" /\ ValidInput(mc, mcIn) /\ mc.bias.present) =>
       /\ mcOut.err = "none"
       /\ Size(mcOut.val) = <<Len(mcIn), mc.out_channels, TargetNV(mc)>>
       /\ \A k \in 1..ncoeff : Size(mcOut.feat[k])[3] = TargetNV(mc)
       /\ mc.stride = 2 => Size(mcOut.val)[3] < Size(mcIn)[3]

\* C2: the bias is optional.  An operator built with bias disabled has no
\* bias, and its forward on a correctly sized input returns the
\* coefficient-weighted combination of the four terms with nothing added; an
\* operator with a bias returns that combination plus the bias of each
\* output channel.
C2_BiasOptional ==
    (Called /\ ValidInput(mc, mcIn)) =>
       /\ mcOut.err = "none"
       /\ LET comb == Contract(mcOut.feat, mc.coeffs)
          IN  \A b \in 1..Len(comb) : \A o \in 1..mc.out_channels :
                \A v \in 1..Len(comb[1][1]) :
                   mcOut.val[b][o][v] =
                      comb[b][o][v] + (IF mc.bias.present THEN mc.bias.val[o] ELSE 0)

\* C4: a stride-2 MeshConv(c, c) followed by the MeshConvTranspose(c, c) of
\* the same bundle returns the vertex count of the original input; the
\* transpose pads its nv_prev-vertex input by exactly nv - nv_prev vertices.
C4_RoundTripRestoresVertexCount ==
    mctOut.err # "unrun" =>
       /\ mctOut.err = "none"
       /\ Size(mcOut.val)[3] = mc.nv_prev
       /\ Size(mctOut.padded)[3] - Size(mcOut.val)[3] = mc.nv - mc.nv_prev
       /\ Size(mctOut.val) = <<Len(mcIn), mc.out_channels, Size(mcIn)[3]>>

C4_Witness ==
    /\ mctOut.err = "none"
    /\ mc.in_channels = MaxChan
    /\ mc.mesh_file = MaxMeshLevel
    /\ Size(mcOut.val)[3] < Size(mcIn)[3]

\* C6: a MeshConv of stride 1 or 2 whose bias is zero maps the all-zero
\* input to the all-zero output, whatever its coefficients.
C6_ZeroInputZeroOutput ==
    (Called /\ mc.kind = "MeshConv" /\ ZeroBias(mc) /\ IsZero(mcIn)) =>
       /\ ValidInput(mc, mcIn) => mcOut.err = "none"
       /\ mcOut.err = "none" => IsZero(mcOut.val)

C6_Witness ==
    /\ Called /\ mc.kind = "MeshConv" /\ mc.stride = 2
    /\ ZeroBias(mc) /\ IsZero(mcIn)
    /\ \A k \in 1..ncoeff : \E o \in 1..mc.out_channels :
          \E i \in 1..mc.in_channels : mc.coeffs[o][i][k] # 0
    /\ mcOut.err = "none" /\ IsZero(mcOut.val)

\* C7: a stride-1 MeshConv with weight 1 on the identity term, 0 on the
\* other three terms and zero bias returns, in every output channel and at
\* every vertex, the sum of the input over the input channels, whatever the
\* matrices of the mesh bundle.
C7_IdentitySelectorSumsChannels ==
    (/\ Called /\ mc.kind = "MeshConv" /\ mc.stride = 1
     /\ mc.coeffs = TermSelector(mc, 1) /\ ZeroBias(mc)
     /\ ValidInput(mc, mcIn)) =>
       /\ mcOut.err = "none"
       /\ Size(mcOut.val) = <<Len(mcIn), mc.out_channels, mc.nv>>
       /\ \A b \in 1..Len(mcIn) : \A o \in 1..mc.out_channels : \A v \in 1..mc.nv :
             mcOut.val[b][o][v] =
                SumSeq([i \in 1..mc.in_channels |-> mcIn[b][i][v]])

C7_Witness ==
    /\ Called /\ mc.kind = "MeshConv" /\ mc.stride = 1
    /\ mc.coeffs = TermSelector(mc, 1) /\ ZeroBias(mc)
    /\ ValidInput(mc, mcIn)
    /\ mc.in_channels = MaxChan /\ mc.out_channels = MaxChan
    /\ ~IsZero(mcOut.feat[2]) /\ ~IsZero(mcOut.feat[3]) /\ ~IsZero(mcOut.feat[4])
    /\ ~IsZero(mcOut.val)

\* C8: a constructor given an unsupported stride (outside {1, 2} for
\* MeshConv, other than 2 for MeshConvTranspose) raises AssertionError
\* before the mesh file is read and before any parameter is created, and
\* forward never runs on an operator of unsupported stride.
C8_UnsupportedStrideRejected ==
    /\ (/\ mc.err # "unbuilt"
        /\ \/ mc.kind = "MeshConv" /\ mc.stride \notin {1, 2}
           \/ mc.kind = "MeshConvTranspose" /\ mc.stride # 2) =>
          /\ mc.err = "AssertionError"
          /\ ~mc.loaded
          /\ mc.coeffs = <<>>
          /\ ~mc.bias.present
          /\ ~Called
    /\ Called =>
          \/ mc.kind = "MeshConv" /\ mc.stride \in {1, 2}
          \/ mc.kind = "MeshConvTranspose" /\ mc.stride = 2

C8_Witness ==
    /\ mc.kind = "MeshConvTranspose" /\ mc.stride = 1
    /\ ~MeshFileExists(mc.mesh_file)
    /\ mc.err = "AssertionError"

C5_ResBlockBranchesAgree ==
    (/\ rbOut.err # "unrun"
     /\ rbOut.x.c = rb.in_chan
     /\ rbOut.x.n = IcoNV(rb.level)) =>
       /\ rbOut.err = "none"
       /\ rbOut.x1.err = "none"
       /\ rbOut.x1 = rbOut.x2
       /\ rbOut.out = ShOk(rbOut.x.b, rb.out_chan,
                           IF rb.coarsen THEN IcoNV(rb.level - 1)
                           ELSE IcoNV(rb.level))

C5_Witness ==
    /\ rbOut.err = "none"
    /\ rb.coarsen
    /\ rb.in_chan # rb.out_chan /\ rb.neck_chan # rb.in_chan
    /\ rbOut.x.c = rb.in_chan /\ rbOut.x.n = IcoNV(rb.level)
    /\ rbOut.out.n < rbOut.x.n

\* the network was built with the default levels and called on an input of
\* size (batch, in_ch, nv of max_level)
DefaultNetCalled ==
    /\ fpnOut.err # "unrun"
    /\ fpn.max_level = DefaultMaxLevel /\ fpn.min_level = DefaultMinLevel
    /\ fpnOut.x.c = fpn.in_ch
    /\ fpnOut.x.n = IcoNV(fpn.max_level)

\* C3: for every max_level > min_level >= 0 whose mesh files exist, the
\* 2-level pyramid max_level=1, min_level=0 included, construction
\* succeeds and forward on an input of size (batch, in_ch, nv of max_level)
\* returns size (batch, out_ch, nv of max_level).
C3_AnyLevelsEndToEnd ==
    (fpn.err # "unbuilt" /\ fpn.max_level > fpn.min_level) =>
       /\ fpn.err = "none"
       /\ (/\ fpnOut.err # "unrun"
           /\ fpnOut.x.c = fpn.in_ch
           /\ fpnOut.x.n = IcoNV(fpn.max_level)) =>
             /\ fpnOut.err = "none"
             /\ fpnOut.out = ShOk(fpnOut.x.b, fpn.out_ch, IcoNV(fpn.max_level))

\* C3, for the default levels max_level=5, min_level=0: forward returns
\* size (batch, out_ch, nv of level 5).
C3_DefaultLevelsEndToEnd ==
    DefaultNetCalled =>
       /\ fpnOut.err = "none"
       /\ fpnOut.out = ShOk(fpnOut.x.b, fpn.out_ch, IcoNV(fpn.max_level))

\* C10: with max_level=5 and min_level=0 every addition of forward has
\* operands of one size: x_d[k] is at level 5-k with fdim*2^k channels, the
\* two operands of Up stage i are at level i+1 with fpn_dim channels, the
\* second being the 1x1 convolution of x_d[levels-1-i], and x1..x4 are at
\* level 3 with 128 channels.
C10_DefaultNetAdditionsAgree ==
    DefaultNetCalled =>
       /\ fpnOut.err = "none"
       /\ Len(fpnOut.x_d) = 6
       /\ \A k \in 0..5 :
             fpnOut.x_d[k + 1] = ShOk(fpnOut.x.b, fpn.fdim * 2^k, IcoNV(5 - k))
       /\ \A k \in 1..5 :
             /\ fpnOut.down[k].x1.err = "none"
             /\ fpnOut.down[k].x1 = fpnOut.down[k].x2
       /\ \A i \in 0..2 :
             /\ fpnOut.up[i + 1].skip = fpnOut.x_d[fpn.levels - 1 - i + 1]
             /\ fpnOut.up[i + 1].x1 = ShOk(fpnOut.x.b, fpn.fpn_dim, IcoNV(i + 1))
             /\ fpnOut.up[i + 1].x2 = fpnOut.up[i + 1].x1
       /\ \A j \in 1..4 : fpnOut.det[j] = ShOk(fpnOut.x.b, DetDim, IcoNV(3))

C10_Witness ==
    /\ DefaultNetCalled
    /\ fpn.fdim = DefaultFdim /\ fpn.fpn_dim = DefaultFpnDim
    /\ fpnOut.err = "none"
    /\ fpnOut.sum = ShOk(fpnOut.x.b, DetDim, IcoNV(3))

====
